---- MODULE Spec2Model ----
(***************************************************************************)
(* Tenant resolution, credential verification and role-based access        *)
(* control of the WampumsApi backend, as the Express middleware chain of   *)
(* index.js and the handlers of routes/ and controllers/ implement them,   *)
(* and the password-reset transaction of authController.resetPassword.     *)
(***************************************************************************)
EXTENDS Integers, Sequences, FiniteSets, TLC

\* ------------------------------------------------------------------ bounds
\* Tokens the server has issued and clients still hold.
MaxTokens == 2
\* Requests served one after the other in one behaviour.
MaxRequests == 3
\* resetPassword requests started in one behaviour of SpecReset.
MaxResetAttempts == 3
\* Resolver calls made in one behaviour of SpecSession.
MaxCalls == 3

\* ------------------------------------------------------------ value spaces
Users == {"u1", "u2"}
NoUser == "nouser"
Orgs == {7, 42}
\* undefined / null organization id (falsy in every test the code makes)
NoOrg == 0
Roles == {"parent", "animation", "admin"}
NoRole == "norole"
\* No transaction holds the row.
NoTx == 0
Participants == {"p1"}

\* A hostname is its sequence of labels.
HostMeute == <<"meute6a", "app">>
HostOther == <<"irrelevant", "example", "com">>
HostDemo == <<"demo", "wampums", "app">>
Hosts == {HostMeute, HostOther, HostDemo}
\* The Express request object, which several callers pass where
\* determineOrganizationId expects the hostname.
ReqObject == <<"[object Request]">>

\* Rows of organization_domains: '*' is the wildcard segment.
organization_domains ==
    { [domain |-> <<"meute6a", "app">>, organization_id |-> 42],
      [domain |-> <<"demo", "wampums", "app">>, organization_id |-> 42],
      [domain |-> <<"*", "wampums", "app">>, organization_id |-> 7] }

\* ------------------------------------------------------------------ tokens
\* The payload of a JWT signed with JWT_SECRET_KEY.  Every sign site of the
\* repository writes a subset of these claims; an absent claim is NoUser,
\* NoRole, NoOrg or "none".
NoClaims ==
    [id |-> NoUser, role |-> NoRole, organizationId |-> NoOrg,
     user_id |-> NoUser, userId |-> NoUser, email |-> NoUser, purpose |-> "none"]

\* login: { id, role, organizationId }
AccessToken(u, r, o) ==
    [NoClaims EXCEPT !.id = u, !.role = r, !.organizationId = o]

\* verifyEmail: { id, email, verified: true }
VerifiedToken(u) ==
    [NoClaims EXCEPT !.id = u, !.email = u]

\* requestReset: { userId, email, purpose: "password_reset" }
ResetToken(u) ==
    [NoClaims EXCEPT !.userId = u, !.email = u, !.purpose = "password_reset"]

\* What a client presents: nothing, a token whose signature does not verify,
\* an issued token past its expiry, or an issued token.
NoCred == [kind |-> "none", claims |-> NoClaims]
ForgedCred == [kind |-> "forged", claims |-> NoClaims]
ExpiredCred == [kind |-> "expired", claims |-> NoClaims]
ValidCred(t) == [kind |-> "valid", claims |-> t]

\* jwt.verify: the error it throws ("none" when it returns the payload).
\* The signature is checked before the expiry.
JwtVerifyError(cred) ==
    CASE cred.kind = "forged" -> "JsonWebTokenError"
      [] cred.kind = "expired" -> "TokenExpiredError"
      [] OTHER -> "none"

\* ------------------------------------------------------------------- state
VARIABLES
    mw,                      \* which config/middleware.js the server runs
    user_organizations,      \* [Users -> [Orgs -> role or NoRole]]
    is_verified,             \* users.is_verified
    participant_organizations, \* set of <<participant, org>>
    user_participants,       \* set of <<user, participant>>
    issued,                  \* tokens issued and still held by clients
    req,                     \* the request being served
    served,                  \* requests started so far
    password_reset_tokens,   \* [Users -> "none" | "unused" | "used"], committed
    password,                \* users.password, committed
    \* --- the resetPassword transactions (SpecReset)
    row_lock,                \* [Users -> transaction holding the user's rows, 0 if none]
    tx,                      \* the resetPassword requests in flight
    attempts,                \* resetPassword requests started so far
    \* --- the session-based resolvers (SpecSession)
    session,                 \* [Sessions -> req.session.current_organization_id]
    call,                    \* the last call of a resolver and its outcome
    calls,                   \* calls made so far
    \* --- services/authService.js (SpecAuth)
    token_version,           \* users.token_version, NullVersion when never set
    revocations,             \* [Users -> revokeUserTokens UPDATEs that went through]
    refresh_tokens,          \* the refresh tokens signed so far
    auth,                    \* the refreshAccessToken calls waiting for their SELECT
    answer,                  \* what the last refreshAccessToken call returned
    \* --- the monolith index.js (SpecLegacy)
    legacy,                  \* the last request the monolith answered
    \* --- the pooled connections (SpecConn)
    checked_out,             \* clients of the pool that are checked out
    handling,                \* the requests that use the pool, by arrival
    \* --- updateParticipantGroup (SpecGroup)
    participant_groups_key,  \* the table has a unique key (participant_id, organization_id)
    participant_groups,      \* committed rows of participant p1 in one organization
    grp,                     \* the updateParticipantGroup requests, by arrival
    \* --- awardHonor (SpecHonor)
    honors,                  \* [HonorKeys -> committed rows of honors]
    points,                  \* [HonorKeys -> committed 5-point rows of points]
    hon,                     \* the awardHonor requests, by arrival
    \* --- update_attendance (SpecAttendance)
    attendance,              \* committed status of p1 on one date, "none" without a row
    point_adjustments,       \* sum of the committed points rows update_attendance wrote
    att                      \* the update_attendance requests, by arrival

dbVars == <<user_organizations, is_verified, participant_organizations,
            user_participants>>
pipeVars == <<mw, user_organizations, is_verified, participant_organizations,
              user_participants, req, served>>
resetVars == <<password, row_lock, tx, attempts>>
libVars == <<session, call, calls>>
authVars == <<token_version, revocations, refresh_tokens, auth, answer>>
legacyVars == <<legacy>>
connVars == <<checked_out, handling>>
groupVars == <<participant_groups_key, participant_groups, grp>>
honorVars == <<honors, points, hon>>
attendVars == <<attendance, point_adjustments, att>>
extVars == <<authVars, legacyVars, connVars, groupVars, honorVars, attendVars>>
vars == <<mw, user_organizations, is_verified, participant_organizations,
          user_participants, issued, req, served, password_reset_tokens,
          password, row_lock, tx, attempts, session, call, calls, extVars>>

\* ------------------------------------------------- hostname -> organization
\* `$2 LIKE REPLACE(domain, '*', '%')`: a '*' segment of the pattern stands
\* for one or more labels of the host.
RECURSIVE Like(_, _)
Like(host, pattern) ==
    IF pattern = <<>> THEN host = <<>>
    ELSE IF Head(pattern) = "*"
         THEN \E k \in 1..Len(host) :
                 Like(SubSeq(host, k + 1, Len(host)), Tail(pattern))
         ELSE /\ host # <<>>
              /\ Head(host) = Head(pattern)
              /\ Like(Tail(host), Tail(pattern))

\* The rows the WHERE clause of the lookup selects.
MatchingDomains(host) ==
    { d \in organization_domains : d.domain = host \/ Like(host, d.domain) }

\* A failed query (the driver or the database rejects it).
LookupError == -1

\* determineOrganizationId(currentHost): every result the call can have.
\* `LIMIT 1` without ORDER BY returns any one matching row; no row gives
\* undefined.  The query can fail, and it always fails when the argument is
\* the request object, which is not a value the driver can bind.
determineOrganizationId(currentHost) ==
    {LookupError} \cup
    ( IF currentHost = ReqObject THEN {}
      ELSE IF MatchingDomains(currentHost) = {} THEN {NoOrg}
      ELSE { d.organization_id : d \in MatchingDomains(currentHost) } )

\* ------------------------------------------------------------------ routes
\* router: "public" for routes/public.js (mounted at '/'), "api" for
\* routes/api.js (mounted at '/api' behind tokenMiddleware); path is req.path
\* as tokenMiddleware sees it, relative to the mount point; roles is the
\* argument of the route's roleMiddleware, {} when it has none.
RouteTable ==
    [ publicLogin       |-> [router |-> "public", path |-> "/login", roles |-> {}],
      publicRequestReset |-> [router |-> "public", path |-> "/request_reset", roles |-> {}],
      publicVerifyEmail |-> [router |-> "public", path |-> "/verify-email", roles |-> {}],
      publicGetOrganizationId |-> [router |-> "public", path |-> "/get_organization_id", roles |-> {}],
      login             |-> [router |-> "api", path |-> "/login", roles |-> {}],
      approveUser       |-> [router |-> "api", path |-> "/approve-user", roles |-> {"admin"}],
      updateUserRole    |-> [router |-> "api", path |-> "/update-user-role", roles |-> {"admin"}],
      removeParticipantFromOrganization |->
          [router |-> "api", path |-> "/remove-participant-from-organization", roles |-> {"admin"}],
      getParticipant    |-> [router |-> "api", path |-> "/participant/:id", roles |-> {}],
      getFormSubmission |-> [router |-> "api", path |-> "/form-submission", roles |-> {}],
      getNews           |-> [router |-> "api", path |-> "/news", roles |-> {}] ]

RouteNames == DOMAIN RouteTable

\* PUBLIC_ROUTES of config/middleware.js
PUBLIC_ROUTES ==
    {"/login", "/api/login", "/register", "/refresh-token", "/verify-email",
     "/request-reset", "/reset-password", "/get-organization-settings",
     "/get-news", "/get-organization-id"}

\* isPublicRoute of config/middleware.js (no modelled path ends in '/')
isPublicRoute(path) == path \in PUBLIC_ROUTES

\* publicRoutes inside the other version's tokenMiddleware
publicRoutes008 ==
    {"/api/authenticate", "/api/login", "/api/register", "/api/verify-email",
     "/api/request_reset", "/api/reset_password",
     "/api/get_organization_settings", "/api/get_news",
     "/api/get_organization_id"}

publicPaths007 ==
    {"/api/authenticate", "/api/login", "/api/register", "/api/verify-email",
     "/api/request_reset", "/api/reset_password",
     "/api/get_organization_settings", "/api/get_news",
     "/api/get_organization_id"}

\* PUBLIC_API_ROUTES of utils/routeConfig.js
PUBLIC_API_ROUTES ==
    {"/api/login", "/api/register", "/api/verify-email", "/api/request-reset",
     "/api/reset-password", "/api/get-organization-id",
     "/api/get-organization-settings", "/api/get-news"}

\* path.startsWith('/api/'), over the paths that occur in the lists and in
\* RouteTable: those written with the prefix.
StartsWithApi(path) ==
    path \in PUBLIC_API_ROUTES \cup publicRoutes008 \cup publicPaths007
                \cup {"/api/login"}

\* requiresAuth of utils/routeConfig.js (no modelled path ends in '/')
requiresAuth(path) ==
    IF ~StartsWithApi(path) THEN FALSE
    ELSE path \notin PUBLIC_API_ROUTES

\* The three versions of config/middleware.js in the repository.
MwVersions == {"config", "part_007", "part_008"}

\* ----------------------------------------------------------------- request
Idle ==
    [pc |-> "idle", route |-> "login", cred |-> NoCred, host |-> HostOther,
     organizationId |-> NoOrg, hasUser |-> FALSE, user |-> NoClaims,
     status |-> 0, success |-> "none", message |-> "none",
     steps |-> <<>>, domainQueries |-> 0, verified |-> FALSE,
     effectiveOrg |-> NoOrg, paramOrg |-> NoOrg, granted |-> FALSE,
     lookupHost |-> <<>>,
     participant |-> "none"]

\* res.status(status).json({success, message}); res.json alone answers 200.
Respond(r, status, success, message) ==
    [r EXCEPT !.pc = "done", !.status = status,
              !.success = IF success THEN "true" ELSE "false",
              !.message = message]

Ran(r, step) == [r EXCEPT !.steps = Append(@, step)]

\* getOrganizationId(req) of utils/organizationContext.js: NoOrg stands for
\* both the thrown error (required) and the null result.
getOrganizationId(r) ==
    IF r.hasUser /\ r.user.organizationId # NoOrg THEN r.user.organizationId
    ELSE IF r.organizationId # NoOrg THEN r.organizationId
    ELSE NoOrg

\* The credentials a client can present.
Creds == {NoCred, ForgedCred, ExpiredCred} \cup { ValidCred(t) : t \in issued }

\* A new token reaches the client.
CanIssue(t) == t \in issued \/ Cardinality(issued) < MaxTokens

\* --------------------------------------------------------- middleware chain
\* A request arrives.
NewRequest ==
    /\ req.pc \in {"idle", "done"}
    /\ served < MaxRequests
    /\ \E route \in RouteNames, cred \in Creds, host \in Hosts :
          req' = [Idle EXCEPT !.pc = "extractJWT", !.route = route,
                              !.cred = cred, !.host = host]
    /\ served' = served + 1
    /\ UNCHANGED <<mw, dbVars, issued, password_reset_tokens, resetVars, libVars, extVars>>

\* app.use(extractOrganizationFromJWT).  No sign site writes user_id or
\* user_role, so req.user, when set here, carries NoRole.
extractOrganizationFromJWT ==
    /\ req.pc = "extractJWT"
    /\ LET r == Ran(req, "extractOrganizationFromJWT")
           decoded == req.cred.claims
       IN req' =
            IF req.cred.kind = "none" \/ JwtVerifyError(req.cred) # "none"
            THEN [r EXCEPT !.pc = "organization"]
            ELSE IF decoded.organizationId # NoOrg
                 THEN [r EXCEPT !.pc = "organization", !.verified = TRUE,
                                !.organizationId = decoded.organizationId,
                                !.hasUser = (decoded.user_id # NoUser),
                                !.user = IF decoded.user_id # NoUser
                                         THEN [NoClaims EXCEPT
                                                 !.id = decoded.user_id,
                                                 !.organizationId = decoded.organizationId]
                                         ELSE NoClaims]
                 ELSE [r EXCEPT !.pc = "organization", !.verified = TRUE]
    /\ UNCHANGED <<mw, dbVars, issued, served, password_reset_tokens, resetVars, libVars, extVars>>

\* The organization middleware of index.js, then the routers: a route of
\* routes/public.js is answered by its handler, anything else goes on to
\* app.use('/api', tokenMiddleware).
organizationMiddleware ==
    /\ req.pc = "organization"
    /\ \E organizationId \in determineOrganizationId(ReqObject) :
          LET r == [Ran(req, "organizationMiddleware") EXCEPT
                       !.domainQueries = @ + 1,
                       !.pc = IF RouteTable[req.route].router = "public"
                              THEN "handler" ELSE "token"]
          IN req' = IF organizationId = LookupError THEN r
                    ELSE [r EXCEPT !.organizationId = organizationId]
    /\ UNCHANGED <<mw, dbVars, issued, served, password_reset_tokens, resetVars, libVars, extVars>>

\* next() of tokenMiddleware: the route's roleMiddleware when it has one,
\* else its handler.
AfterToken_SkipRole(r) ==
    [r EXCEPT !.pc = "handler"]
AfterToken(r) ==
    [r EXCEPT !.pc = IF RouteTable[r.route].roles # {} THEN "role" ELSE "handler"]

\* tokenMiddleware of config/middleware.js
tokenMiddlewareConfig(r) ==
    IF isPublicRoute(RouteTable[r.route].path) THEN AfterToken(r)
    ELSE IF r.cred.kind = "none"
         THEN Respond(r, 401, FALSE, "Authentication required")
    ELSE IF JwtVerifyError(r.cred) # "none"
         THEN Respond(r, 401, FALSE, "Invalid or expired token")
    ELSE IF r.cred.claims.id = NoUser \/ r.cred.claims.organizationId = NoOrg
         THEN Respond([r EXCEPT !.verified = TRUE], 403, FALSE,
                      "Invalid or expired token: Invalid token payload")
    ELSE AfterToken([r EXCEPT !.verified = TRUE, !.hasUser = TRUE,
                              !.user = r.cred.claims,
                              !.organizationId = r.cred.claims.organizationId])

\* "Invalid or expired token: " + error.message, with the message
\* jsonwebtoken gives each error.
InvalidOrExpired008(cred) ==
    IF JwtVerifyError(cred) = "TokenExpiredError"
    THEN "Invalid or expired token: jwt expired"
    ELSE "Invalid or expired token: invalid signature"

\* tokenMiddleware of the other version of config/middleware.js
tokenMiddleware008(r) ==
    IF RouteTable[r.route].path \in publicRoutes008 THEN AfterToken(r)
    ELSE IF r.cred.kind = "none"
         THEN Respond(r, 401, FALSE, "Missing token")
    ELSE IF JwtVerifyError(r.cred) # "none"
         THEN Respond(r, 403, FALSE, InvalidOrExpired008(r.cred))
    ELSE IF r.cred.claims.id = NoUser /\ r.cred.claims.organizationId = NoOrg
         THEN Respond([r EXCEPT !.verified = TRUE], 403, FALSE,
                      "Invalid or expired token: Invalid token payload")
    ELSE AfterToken([r EXCEPT !.verified = TRUE, !.hasUser = TRUE,
                              !.user = r.cred.claims])

\* isPublicRoute of the version of config/middleware.js that defines
\* extractOrganizationFromJWT: exact match after dropping a trailing slash
\* (no route path of RouteTable ends with one).
isPublicRoute007(path) == path \in publicPaths007

\* tokenMiddleware of that version: it reads decoded.user_id, and answers
\* 403 to a token without organizationId as to one that fails jwt.verify.
tokenMiddleware007(r) ==
    IF isPublicRoute007(RouteTable[r.route].path) THEN AfterToken(r)
    ELSE IF r.cred.kind = "none"
         THEN Respond(r, 401, FALSE, "Authentication required")
    ELSE IF JwtVerifyError(r.cred) # "none"
         THEN Respond(r, 403, FALSE, "Invalid or expired token")
    ELSE IF r.cred.claims.organizationId = NoOrg
         THEN Respond([r EXCEPT !.verified = TRUE], 403, FALSE,
                      "Invalid or expired token")
    ELSE IF r.cred.claims.user_id = NoUser
         THEN Respond([r EXCEPT !.verified = TRUE], 403, FALSE,
                      "User authentication required for this resource")
    ELSE AfterToken([r EXCEPT !.verified = TRUE, !.hasUser = TRUE,
                              !.user = [NoClaims EXCEPT
                                          !.id = r.cred.claims.user_id,
                                          !.role = "user",
                                          !.organizationId = r.cred.claims.organizationId],
                              !.organizationId = r.cred.claims.organizationId])

\* The tokenMiddleware the server imported, applied to a request.
tokenMiddlewareOf(r) ==
    CASE mw = "config" -> tokenMiddlewareConfig(r)
      [] mw = "part_007" -> tokenMiddleware007(r)
      [] mw = "part_008" -> tokenMiddleware008(r)

\* app.use('/api', tokenMiddleware)
tokenMiddleware ==
    /\ req.pc = "token"
    /\ req' = tokenMiddlewareOf(Ran(req, "tokenMiddleware"))
    /\ UNCHANGED <<mw, dbVars, issued, served, password_reset_tokens, resetVars, libVars, extVars>>

\* roleMiddleware(allowedRoles)
roleCheck_AnyRole(r, allowedRoles) ==
    IF ~r.hasUser \/ r.user.role = NoRole
    THEN Respond(r, 403, FALSE, "No role information found")
    ELSE [r EXCEPT !.pc = "handler"]
roleCheck(r, allowedRoles) ==
    IF ~r.hasUser \/ r.user.role = NoRole
    THEN Respond(r, 403, FALSE, "No role information found")
    ELSE IF r.user.role \notin allowedRoles
         THEN Respond(r, 403, FALSE, "Insufficient permissions")
    ELSE [r EXCEPT !.pc = "handler"]

roleMiddleware ==
    /\ req.pc = "role"
    /\ req' = roleCheck(Ran(req, "roleMiddleware"), RouteTable[req.route].roles)
    /\ UNCHANGED <<mw, dbVars, issued, served, password_reset_tokens, resetVars, libVars, extVars>>

\* ---------------------------------------------------------------- handlers
Handling(route) == req.pc = "handler" /\ req.route = route
Handled(r) == Ran(r, "handler")

\* The row of `users JOIN user_organizations` for an email and organization.
MemberRole(u, organizationId) ==
    IF u \in Users /\ organizationId \in Orgs
    THEN user_organizations[u][organizationId] ELSE NoRole

\* The body of both login handlers once the organization is chosen: the
\* membership row is looked up in lookupOrg, the claim is claimOrg.
LoginOutcome(r, u, passwordOk, lookupOrg, claimOrg) ==
    IF MemberRole(u, lookupOrg) = NoRole \/ ~passwordOk
    THEN Respond(r, 200, FALSE, "Invalid email or password.")
    ELSE IF ~is_verified[u]
         THEN Respond(r, 200, FALSE, "Your account is not yet verified.")
    ELSE Respond(r, 200, TRUE, "login_successful")

LoginToken(u, passwordOk, lookupOrg, claimOrg) ==
    IF MemberRole(u, lookupOrg) # NoRole /\ passwordOk /\ is_verified[u]
    THEN {AccessToken(u, MemberRole(u, lookupOrg), claimOrg)}
    ELSE {}

\* router.post('/login') of routes/public.js: the organization is the body
\* field organization_id.
publicLogin ==
    /\ Handling("publicLogin")
    /\ \E u \in Users, passwordOk \in BOOLEAN, organization_id \in Orgs \cup {NoOrg} :
          IF organization_id = NoOrg
          THEN /\ req' = Respond(Handled(req), 200, FALSE, "Organization ID is required")
               /\ issued' = issued
          ELSE /\ \A t \in LoginToken(u, passwordOk, organization_id, organization_id) :
                     CanIssue(t)
               /\ req' = [LoginOutcome(Handled(req), u, passwordOk,
                                       organization_id, organization_id)
                            EXCEPT !.effectiveOrg = organization_id,
                                   !.paramOrg = organization_id]
               /\ issued' = issued \cup
                     LoginToken(u, passwordOk, organization_id, organization_id)
    /\ UNCHANGED <<mw, dbVars, served, password_reset_tokens, resetVars, libVars, extVars>>

\* exports.login of controllers/authController.js: the organization is
\* req.organizationId.
login ==
    /\ Handling("login")
    /\ \E u \in Users, passwordOk \in BOOLEAN :
          /\ \A t \in LoginToken(u, passwordOk, req.organizationId, req.organizationId) :
                CanIssue(t)
          /\ req' = [LoginOutcome(Handled(req), u, passwordOk,
                                  req.organizationId, req.organizationId)
                       EXCEPT !.effectiveOrg = req.organizationId]
          /\ issued' = issued \cup
                LoginToken(u, passwordOk, req.organizationId, req.organizationId)
    /\ UNCHANGED <<mw, dbVars, served, password_reset_tokens, resetVars, libVars, extVars>>

\* exports.approveUser
approveUser ==
    /\ Handling("approveUser")
    /\ \E user_id \in Users :
          LET organizationId == getOrganizationId(req)
              r == [Handled(req) EXCEPT !.effectiveOrg = organizationId]
          IN IF organizationId = NoOrg
             THEN /\ req' = Respond(r, 200, FALSE, "Error approving user")
                  /\ is_verified' = is_verified
             ELSE IF MemberRole(user_id, organizationId) = NoRole
                  THEN /\ req' = Respond(r, 200, FALSE, "Failed to approve user")
                       /\ is_verified' = is_verified
                  ELSE /\ req' = Respond(r, 200, TRUE, "User approved successfully")
                       /\ is_verified' = [is_verified EXCEPT ![user_id] = TRUE]
    /\ UNCHANGED <<mw, user_organizations, participant_organizations,
                   user_participants, issued, served, password_reset_tokens,
                   resetVars, libVars, extVars>>

\* exports.updateUserRole
updateUserRole ==
    /\ Handling("updateUserRole")
    /\ \E user_id \in Users, new_role \in Roles :
          LET organizationId == getOrganizationId(req)
              r == [Handled(req) EXCEPT !.effectiveOrg = organizationId]
          IN IF organizationId = NoOrg
             THEN /\ req' = Respond(r, 200, FALSE, "Error updating user role")
                  /\ user_organizations' = user_organizations
             ELSE IF MemberRole(user_id, organizationId) = NoRole
                  THEN /\ req' = Respond(r, 200, FALSE, "Failed to update user role")
                       /\ user_organizations' = user_organizations
                  ELSE /\ req' = Respond(r, 200, TRUE, "User role updated successfully")
                       /\ user_organizations' =
                             [user_organizations EXCEPT ![user_id][organizationId] = new_role]
    /\ UNCHANGED <<mw, is_verified, participant_organizations,
                   user_participants, issued, served, password_reset_tokens,
                   resetVars, libVars, extVars>>

\* exports.removeParticipantFromOrganization: the organization is looked up
\* again, with the request object as the hostname.
removeParticipantFromOrganization ==
    /\ Handling("removeParticipantFromOrganization")
    /\ \E participant_id \in Participants,
          organizationId \in determineOrganizationId(ReqObject) :
          LET r == [Handled(req) EXCEPT !.domainQueries = @ + 1,
                                        !.participant = participant_id]
          IN IF organizationId = LookupError
             THEN /\ req' = Respond(r, 200, FALSE, "error.message")
                  /\ participant_organizations' = participant_organizations
             ELSE /\ req' = Respond([r EXCEPT !.effectiveOrg = organizationId],
                                    200, TRUE, "Participant removed from organization successfully")
                  /\ participant_organizations' =
                        participant_organizations \ {<<participant_id, organizationId>>}
    /\ UNCHANGED <<mw, user_organizations, is_verified, user_participants,
                   issued, served, password_reset_tokens, resetVars, libVars, extVars>>

\* exports.getParticipant
getParticipant ==
    /\ Handling("getParticipant")
    /\ \E participantId \in Participants,
          organizationId \in determineOrganizationId(ReqObject) :
          LET r == [Handled(req) EXCEPT !.domainQueries = @ + 1,
                                        !.participant = participantId]
          IN req' =
               IF organizationId = LookupError
               THEN Respond(r, 200, FALSE, "Error retrieving participant")
               ELSE IF organizationId = NoOrg
                    THEN Respond(r, 200, FALSE, "Invalid organization context")
               ELSE IF <<participantId, organizationId>> \notin participant_organizations
                    THEN Respond([r EXCEPT !.effectiveOrg = organizationId],
                                 200, FALSE, "Participant not found")
               ELSE Respond([r EXCEPT !.effectiveOrg = organizationId],
                            200, TRUE, "participant")
    /\ UNCHANGED <<mw, dbVars, issued, served, password_reset_tokens, resetVars, libVars, extVars>>

\* userHasAccessToParticipant: a direct link, or an admin or animation role
\* in an organization the participant belongs to.
userHasAccessToParticipant_RoleOnly(userId, participantId) ==
    \E o \in Orgs :
       /\ MemberRole(userId, o) \in {"admin", "animation"}
       /\ <<participantId, o>> \in participant_organizations
userHasAccessToParticipant(userId, participantId) ==
    \/ <<userId, participantId>> \in user_participants
    \/ \E o \in Orgs :
          /\ MemberRole(userId, o) \in {"admin", "animation"}
          /\ <<participantId, o>> \in participant_organizations

\* exports.getFormSubmission
getFormSubmission ==
    /\ Handling("getFormSubmission")
    /\ \E participant_id \in Participants :
          LET userId == req.user.id
              organizationId == req.user.organizationId
              r == [Handled(req) EXCEPT !.participant = participant_id,
                                        !.effectiveOrg = organizationId]
          IN req' =
               IF ~userHasAccessToParticipant(userId, participant_id)
               THEN Respond(r, 200, FALSE,
                       "You do not have permission to access this participant's data")
               ELSE IF <<participant_id, organizationId>> \in participant_organizations
                    THEN Respond([r EXCEPT !.granted = TRUE], 200, TRUE, "form_data")
               ELSE Respond([r EXCEPT !.granted = TRUE], 200, FALSE,
                            "Form submission not found")
    /\ UNCHANGED <<mw, dbVars, issued, served, password_reset_tokens, resetVars, libVars, extVars>>

\* exports.getNews of controllers/utilityController.js
getNews ==
    /\ Handling("getNews")
    /\ \E organization_id \in Orgs \cup {NoOrg} :
          LET claimOrg == IF req.hasUser THEN req.user.organizationId ELSE NoOrg
              organizationId == IF organization_id # NoOrg THEN organization_id
                                ELSE claimOrg
              r == [Handled(req) EXCEPT !.effectiveOrg = organizationId,
                                        !.paramOrg = organization_id]
          IN req' = IF organizationId = NoOrg
                    THEN Respond(r, 200, FALSE, "Organization ID not found")
                    ELSE Respond(r, 200, TRUE, "news")
    /\ UNCHANGED <<mw, dbVars, issued, served, password_reset_tokens, resetVars, libVars, extVars>>

\* router.post('/request_reset') of routes/public.js.  One reset token per
\* user is modelled.
publicRequestReset ==
    /\ Handling("publicRequestReset")
    /\ \E u \in Users \cup {NoUser} :
          IF u = NoUser
          THEN /\ req' = Respond(Handled(req), 200, TRUE,
                           "If an account exists with this email, a reset link will be sent.")
               /\ UNCHANGED <<issued, password_reset_tokens>>
          ELSE /\ password_reset_tokens[u] = "none"
               /\ CanIssue(ResetToken(u))
               /\ req' = Respond(Handled(req), 200, TRUE,
                           "Password reset instructions have been sent.")
               /\ issued' = issued \cup {ResetToken(u)}
               /\ password_reset_tokens' = [password_reset_tokens EXCEPT ![u] = "unused"]
    /\ UNCHANGED <<mw, dbVars, served, resetVars, libVars, extVars>>

\* router.post('/verify-email') of routes/public.js
publicVerifyEmail ==
    /\ Handling("publicVerifyEmail")
    /\ \E verification_token \in Creds \ {NoCred} :
          LET decoded == verification_token.claims
              r == Handled(req)
          IN IF JwtVerifyError(verification_token) = "JsonWebTokenError"
             THEN /\ req' = Respond(r, 200, FALSE, "Invalid verification token")
                  /\ UNCHANGED <<is_verified, issued>>
             ELSE IF JwtVerifyError(verification_token) = "TokenExpiredError"
                  THEN /\ req' = Respond(r, 200, FALSE, "Verification token has expired")
                       /\ UNCHANGED <<is_verified, issued>>
             ELSE IF decoded.email = NoUser \/ decoded.userId = NoUser
                  THEN /\ req' = Respond(r, 200, FALSE, "Invalid verification token")
                       /\ UNCHANGED <<is_verified, issued>>
             ELSE IF is_verified[decoded.userId]
                  THEN /\ req' = Respond(r, 200, FALSE, "Email already verified")
                       /\ UNCHANGED <<is_verified, issued>>
             ELSE IF decoded.email # decoded.userId
                  THEN /\ req' = Respond(r, 200, FALSE, "Invalid verification token")
                       /\ UNCHANGED <<is_verified, issued>>
             ELSE /\ CanIssue(VerifiedToken(decoded.userId))
                  /\ req' = Respond(r, 200, TRUE, "Email verified successfully")
                  /\ is_verified' = [is_verified EXCEPT ![decoded.userId] = TRUE]
                  /\ issued' = issued \cup {VerifiedToken(decoded.userId)}
    /\ UNCHANGED <<mw, user_organizations, participant_organizations,
                   user_participants, served, password_reset_tokens, resetVars, libVars, extVars>>

\* router.get('/get_organization_id') of routes/public.js
publicGetOrganizationId ==
    /\ Handling("publicGetOrganizationId")
    /\ \E queryHostname \in Hosts \cup {<<>>} :
          LET hostname == IF queryHostname # <<>> THEN queryHostname ELSE req.host
          IN \E organizationId \in determineOrganizationId(hostname) :
                LET r == [Handled(req) EXCEPT !.domainQueries = @ + 1,
                                              !.lookupHost = hostname]
                IN req' =
                     IF organizationId = LookupError
                     THEN Respond(r, 200, FALSE,
                             "An error occurred while fetching the organization ID")
                     ELSE IF organizationId = NoOrg
                          THEN Respond(r, 200, FALSE, "No organization matches this domain")
                     ELSE Respond([r EXCEPT !.effectiveOrg = organizationId],
                                  200, TRUE, "organizationId")
    /\ UNCHANGED <<mw, dbVars, issued, served, password_reset_tokens, resetVars, libVars, extVars>>

\* -------------------------------------------------- session-based resolvers
\* req.session of express-session: one object per client, kept between the
\* requests of that client.
Sessions == {"s1", "s2"}
\* A request without Host header.
NoHost == <<>>

NoCall ==
    [op |-> "none", sid |-> "none", host |-> NoHost, before |-> NoOrg,
     result |-> NoOrg, threw |-> FALSE, error |-> FALSE, status |-> 0,
     message |-> "none"]

\* ------------------------------------------------------------ specification
\* u1 is admin of both organizations.  u2 belongs to organization 42 only:
\* either as animation with an unverified account, or as a verified parent,
\* linked to participant p1 or not.
InitDb ==
    /\ user_organizations \in
          { [u \in Users |->
               IF u = "u1" THEN [o \in Orgs |-> "admin"]
               ELSE [o \in Orgs |-> IF o = 42 THEN role ELSE NoRole]]
            : role \in {"animation", "parent"} }
    /\ is_verified =
          [u \in Users |-> u = "u1" \/ user_organizations[u][42] = "parent"]
    /\ participant_organizations = {<<"p1", 7>>, <<"p1", 42>>}
    /\ user_participants \in
          IF user_organizations["u2"][42] = "parent"
          THEN {{}, {<<"u2", "p1">>}} ELSE {{}}

InitResetIdle ==
    /\ password = [u \in Users |-> "old"]
    /\ row_lock = [u \in Users |-> NoTx]
    /\ tx = <<>>
    /\ attempts = 0

\* No session holds an organization and no resolver has been called.
InitSessionIdle ==
    /\ session = [sid \in Sessions |-> NoOrg]
    /\ call = NoCall
    /\ calls = 0

\* No token_version was ever set, no refresh token signed, no call made.
NullVersion == -1
InitAuthIdle ==
    /\ token_version = [u \in Users |-> NullVersion]
    /\ revocations = [u \in Users |-> 0]
    /\ refresh_tokens = {}
    /\ auth = {}
    /\ answer = [token |-> "none", success |-> FALSE, message |-> "none",
                 revokedAtStart |-> FALSE, revokedAtSelect |-> FALSE,
                 memberAtSelect |-> FALSE]

\* The monolith has answered no request.
LegacyIdle ==
    [path |-> "none", action |-> "none", cred |-> NoCred, hasUser |-> FALSE,
     status |-> 0, success |-> "none", message |-> "none",
     executed |-> FALSE, rowOrg |-> NoOrg, signed |-> NoClaims]

\* No group assignment and no request.
InitGroupIdle ==
    /\ participant_groups_key = FALSE
    /\ participant_groups = {}
    /\ grp = <<>>

\* One participant, two dates, one organization: no honor, no request.
HonorKeys == Participants \X {"d1", "d2"}

\* The monolith has answered nothing, every client is in the pool, and there
\* is no honor, attendance row, point adjustment or request.
InitExtIdle ==
    /\ legacy = LegacyIdle
    /\ checked_out = 0
    /\ handling = <<>>
    /\ honors = [key \in HonorKeys |-> 0]
    /\ points = [key \in HonorKeys |-> 0]
    /\ hon = <<>>
    /\ attendance = "none"
    /\ point_adjustments = 0
    /\ att = <<>>

Init ==
    /\ InitAuthIdle
    /\ InitGroupIdle
    /\ InitExtIdle
    /\ InitSessionIdle
    /\ mw \in MwVersions
    /\ InitDb
    /\ issued = {}
    /\ req = Idle
    /\ served = 0
    /\ password_reset_tokens = [u \in Users |-> "none"]
    /\ InitResetIdle

Next ==
    \/ NewRequest
    \/ extractOrganizationFromJWT
    \/ organizationMiddleware
    \/ tokenMiddleware
    \/ roleMiddleware
    \/ publicLogin
    \/ login
    \/ approveUser
    \/ updateUserRole
    \/ removeParticipantFromOrganization
    \/ getParticipant
    \/ getFormSubmission
    \/ getNews
    \/ publicRequestReset
    \/ publicVerifyEmail
    \/ publicGetOrganizationId

Spec == Init /\ [][Next]_vars

\* ------------------------------------------- resetPassword, in transactions
\* exports.resetPassword of controllers/authController.js, one action per
\* statement it awaits.  Each request runs on its own pooled connection; the
\* database runs READ COMMITTED: a SELECT sees what is committed when it
\* runs, UPDATE takes the row's lock and waits for the transaction holding
\* it, COMMIT publishes the writes and releases the locks.
NewPasswords == {"new1", "new2"}
ResetCreds == { ValidCred(t) : t \in { ResetToken(u) : u \in Users } \cap issued }
                 \cup {ForgedCred, ExpiredCred}

\* jwt.verify(reset_token), the payload check, then BEGIN.
resetPasswordBegin ==
    /\ attempts < MaxResetAttempts
    /\ attempts' = attempts + 1
    /\ \E reset_token \in ResetCreds, new_password \in NewPasswords :
          LET decoded == reset_token.claims
              t == [pc |-> "select", userId |-> decoded.userId,
                    new_password |-> new_password, success |-> "none",
                    message |-> "none",
                    unusedAtStart |-> FALSE]
          IN tx' = Append(tx,
                IF JwtVerifyError(reset_token) # "none"
                THEN [t EXCEPT !.pc = "done", !.success = "false",
                               !.message = "Invalid or expired reset token"]
                ELSE IF decoded.userId = NoUser \/ decoded.purpose # "password_reset"
                     THEN [t EXCEPT !.pc = "done", !.success = "false",
                                    !.message = "Invalid reset token"]
                ELSE [t EXCEPT !.unusedAtStart =
                                  (password_reset_tokens[decoded.userId] = "unused")])
    /\ UNCHANGED <<extVars, libVars, pipeVars, issued, password_reset_tokens, password, row_lock>>

\* SELECT * FROM password_reset_tokens WHERE token = $1 AND used = false AND
\* expires_at > NOW(); ROLLBACK and answer when no row comes back.
resetPasswordSelect_NoUsedCheck ==
    /\ \E i \in DOMAIN tx :
          /\ tx[i].pc = "select"
          /\ tx' = [tx EXCEPT ![i].pc = "updateUser"]
    /\ UNCHANGED <<extVars, libVars, pipeVars, issued, password_reset_tokens, password, row_lock,
                   attempts>>
resetPasswordSelect ==
    /\ \E i \in DOMAIN tx :
          /\ tx[i].pc = "select"
          /\ tx' = [tx EXCEPT ![i] =
                      IF password_reset_tokens[tx[i].userId] = "unused"
                      THEN [@ EXCEPT !.pc = "updateUser"]
                      ELSE [@ EXCEPT !.pc = "done", !.success = "false",
                                     !.message = "Invalid or expired reset token"]]
    /\ UNCHANGED <<extVars, libVars, pipeVars, issued, password_reset_tokens, password, row_lock,
                   attempts>>

\* UPDATE users SET password = $1 WHERE id = $2
resetPasswordUpdateUser ==
    /\ \E i \in DOMAIN tx :
          /\ tx[i].pc = "updateUser"
          /\ row_lock[tx[i].userId] = NoTx
          /\ row_lock' = [row_lock EXCEPT ![tx[i].userId] = i]
          /\ tx' = [tx EXCEPT ![i].pc = "markUsed"]
    /\ UNCHANGED <<extVars, libVars, pipeVars, issued, password_reset_tokens, password, attempts>>

\* UPDATE password_reset_tokens SET used = true WHERE token = $1, then the
\* INSERT INTO audit_logs.  The token's row can be locked only by a
\* transaction that already holds the user's row.
resetPasswordMarkUsed ==
    /\ \E i \in DOMAIN tx :
          /\ tx[i].pc = "markUsed"
          /\ row_lock[tx[i].userId] = i
          /\ tx' = [tx EXCEPT ![i].pc = "commit"]
    /\ UNCHANGED <<extVars, libVars, pipeVars, issued, password_reset_tokens, password, row_lock,
                   attempts>>

\* COMMIT, and the answer.
resetPasswordCommit ==
    /\ \E i \in DOMAIN tx :
          /\ tx[i].pc = "commit"
          /\ password' = [password EXCEPT ![tx[i].userId] = tx[i].new_password]
          /\ password_reset_tokens' =
                [password_reset_tokens EXCEPT ![tx[i].userId] = "used"]
          /\ row_lock' = [row_lock EXCEPT ![tx[i].userId] = NoTx]
          /\ tx' = [tx EXCEPT ![i] =
                      [@ EXCEPT !.pc = "done", !.success = "true",
                                !.message = "Password has been reset successfully"]]
    /\ UNCHANGED <<extVars, libVars, pipeVars, issued, attempts>>

\* The server with a reset token sent to each user and no request in the
\* middleware chain.
InitReset ==
    /\ InitAuthIdle
    /\ InitGroupIdle
    /\ InitExtIdle
    /\ InitSessionIdle
    /\ mw \in MwVersions
    /\ InitDb
    /\ issued = { ResetToken(u) : u \in Users }
    /\ req = Idle
    /\ served = 0
    /\ password_reset_tokens = [u \in Users |-> "unused"]
    /\ InitResetIdle

NextReset ==
    \/ resetPasswordBegin
    \/ resetPasswordSelect
    \/ resetPasswordUpdateUser
    \/ resetPasswordMarkUsed
    \/ resetPasswordCommit

SpecReset == InitReset /\ [][NextReset]_vars

\* --------------------------------------- the resolvers that use the session
Called(op, sid, host) ==
    [NoCall EXCEPT !.op = op, !.sid = sid, !.host = host,
                   !.before = IF sid \in Sessions THEN session[sid] ELSE NoOrg]

\* getCurrentOrganizationId(req) of utils.js: the organization cached in
\* the session, else the lookup of req.hostname, cached when it finds one;
\* it throws when the lookup finds none, and the lookup's own error
\* propagates.
getCurrentOrganizationId ==
    /\ calls < MaxCalls
    /\ calls' = calls + 1
    /\ \E sid \in Sessions, currentHost \in Hosts \cup {NoHost} :
          LET c == Called("getCurrentOrganizationId", sid, currentHost)
          IN IF session[sid] # NoOrg
             THEN /\ call' = [c EXCEPT !.result = session[sid]]
                  /\ UNCHANGED session
             ELSE \E organizationId \in determineOrganizationId(currentHost) :
                     IF organizationId = LookupError
                     THEN /\ call' = [c EXCEPT !.threw = TRUE, !.error = TRUE,
                                               !.message = "query error"]
                          /\ UNCHANGED session
                     ELSE IF organizationId # NoOrg
                          THEN /\ session' = [session EXCEPT ![sid] = organizationId]
                               /\ call' = [c EXCEPT !.result = organizationId]
                     ELSE /\ call' = [c EXCEPT !.threw = TRUE,
                                 !.message = "No organization found for the current host"]
                          /\ UNCHANGED session
    /\ UNCHANGED <<extVars, pipeVars, issued, password_reset_tokens, resetVars>>

\* case "switch_organization" of index.js (switchOrganization of the
\* controllers does the same when req.session exists).
switch_organization ==
    /\ calls < MaxCalls
    /\ calls' = calls + 1
    /\ \E sid \in Sessions, userId \in Users, newOrgId \in Orgs \cup {NoOrg} :
          LET c == Called("switch_organization", sid, NoHost)
          IN IF newOrgId = NoOrg \/ MemberRole(userId, newOrgId) = NoRole
             THEN /\ call' = [c EXCEPT !.status = 200,
                                       !.message = "Invalid organization ID"]
                  /\ UNCHANGED session
             ELSE /\ session' = [session EXCEPT ![sid] = newOrgId]
                  /\ call' = [c EXCEPT !.status = 200, !.result = newOrgId,
                                       !.message = "Organization switched successfully"]
    /\ UNCHANGED <<extVars, pipeVars, issued, password_reset_tokens, resetVars>>

\* case "logout" of index.js: req.session = null
logout ==
    /\ calls < MaxCalls
    /\ calls' = calls + 1
    /\ \E sid \in Sessions :
          /\ session' = [session EXCEPT ![sid] = NoOrg]
          /\ call' = [Called("logout", sid, NoHost) EXCEPT
                         !.status = 200, !.message = "Logged out successfully"]
    /\ UNCHANGED <<extVars, pipeVars, issued, password_reset_tokens, resetVars>>

\* requireOrganizationContext of config/middleware.js, for a request whose
\* req.organizationId the JWT middleware has set (organizationId) or not
\* (NoOrg): result is the req.organizationId the next middleware sees,
\* status the answer when the request ends here.
requireOrganizationContext ==
    /\ calls < MaxCalls
    /\ calls' = calls + 1
    /\ \E organizationId \in Orgs \cup {NoOrg},
          queryHostname \in Hosts \cup {NoHost}, reqHostname \in Hosts :
          LET hostname == IF queryHostname # NoHost THEN queryHostname
                          ELSE reqHostname
              c == [Called("requireOrganizationContext", "none", hostname)
                      EXCEPT !.before = organizationId]
          IN IF organizationId # NoOrg
             THEN call' = [c EXCEPT !.result = organizationId]
             ELSE \E found \in determineOrganizationId(hostname) :
                     call' =
                       IF found = LookupError
                       THEN [c EXCEPT !.error = TRUE, !.status = 500,
                                !.message = "Error determining organization context"]
                       ELSE IF found # NoOrg
                            THEN [c EXCEPT !.result = found]
                       ELSE [c EXCEPT !.status = 400,
                                !.message = "Organization context required"]
    /\ UNCHANGED <<extVars, pipeVars, issued, password_reset_tokens, resetVars, session>>

\* The server with no request in the middleware chain.
InitSession ==
    /\ InitAuthIdle
    /\ InitGroupIdle
    /\ InitExtIdle
    /\ InitSessionIdle
    /\ mw \in MwVersions
    /\ InitDb
    /\ issued = {}
    /\ req = Idle
    /\ served = 0
    /\ password_reset_tokens = [u \in Users |-> "none"]
    /\ InitResetIdle

NextSession ==
    \/ getCurrentOrganizationId
    \/ switch_organization
    \/ logout
    \/ requireOrganizationContext

SpecSession == InitSession /\ [][NextSession]_vars

\* ------------------------------------------------ services/authService.js
\* generateTokens, authenticateUser, refreshAccessToken and revokeUserTokens.
\* A refresh token is the payload generateTokens signs; `epoch` and `expired`
\* are not part of the payload: they record how many revocations of its user
\* had gone through when it was signed and whether its seven days have
\* passed.  refreshAccessToken signs with the same generateTokens, so a token
\* it hands out is one authenticateUser would have signed at that moment.
MaxRefreshTokens == 2
MaxAuthCalls == 1
MaxRevocations == 1

\* user.token_version || 0
VersionOrZero(v) == IF v = NullVersion THEN 0 ELSE v

\* generateTokens(user, organizationId): the refresh payload.
generateTokens(u, role, organizationId, version) ==
    [id |-> u, role |-> role, organizationId |-> organizationId,
     tokenVersion |-> VersionOrZero(version),
     epoch |-> revocations[u], expired |-> FALSE]

\* The caller receives a refresh token.
CanSign(t) == t \in refresh_tokens \/ Cardinality(refresh_tokens) < MaxRefreshTokens

\* revokeUserTokens has gone through for the token's user since it was signed.
Revoked(t) == t.epoch < revocations[t.id]

\* authenticateUser(email, password, organizationId): one SELECT of the
\* membership row, then the tokens.
authenticateUser ==
    /\ \E u \in Users, passwordOk \in BOOLEAN, organizationId \in Orgs :
          LET t == generateTokens(u, MemberRole(u, organizationId), organizationId,
                                  token_version[u])
          IN IF MemberRole(u, organizationId) = NoRole \/ ~passwordOk \/ ~is_verified[u]
             THEN UNCHANGED refresh_tokens
             ELSE /\ CanSign(t)
                  /\ refresh_tokens' = refresh_tokens \cup {t}
    /\ UNCHANGED <<token_version, revocations, auth, answer>>
    /\ UNCHANGED <<pipeVars, issued, password_reset_tokens, resetVars, libVars,
                   legacyVars, connVars, groupVars, honorVars, attendVars>>

\* Seven days pass for a refresh token.
refreshTokenExpires ==
    /\ \E t \in refresh_tokens :
          /\ ~t.expired
          /\ refresh_tokens' = (refresh_tokens \ {t}) \cup {[t EXCEPT !.expired = TRUE]}
    /\ UNCHANGED <<token_version, revocations, auth, answer>>
    /\ UNCHANGED <<pipeVars, issued, password_reset_tokens, resetVars, libVars,
                   legacyVars, connVars, groupVars, honorVars, attendVars>>

\* The answer of a refreshAccessToken call, with what held of its token when
\* the call arrived and when it read the database.
Answer(c, success, message, member) ==
    [token |-> c.token, success |-> success, message |-> message,
     revokedAtStart |-> c.revokedAtStart, revokedAtSelect |-> Revoked(c.token),
     memberAtSelect |-> member]

\* refreshAccessToken(refreshToken), up to its SELECT: verifyRefreshToken
\* answers null for an expired token.
refreshAccessTokenVerify ==
    /\ \E t \in refresh_tokens :
          LET c == [token |-> t, revokedAtStart |-> Revoked(t)]
          IN IF t.expired
             THEN /\ answer' = Answer(c, FALSE, "Invalid refresh token", FALSE)
                  /\ UNCHANGED auth
             ELSE /\ c \in auth \/ Cardinality(auth) < MaxAuthCalls
                  /\ auth' = auth \cup {c}
                  /\ UNCHANGED answer
    /\ UNCHANGED <<token_version, revocations, refresh_tokens>>
    /\ UNCHANGED <<pipeVars, issued, password_reset_tokens, resetVars, libVars,
                   legacyVars, connVars, groupVars, honorVars, attendVars>>

\* user.token_version !== decoded.tokenVersion: null is not 0.
VersionMismatch(stored, tokenVersion) == stored # tokenVersion

\* The SELECT of refreshAccessToken and what follows it.
refreshAccessTokenSelect ==
    /\ \E c \in auth :
          LET decoded == c.token
              role == MemberRole(decoded.id, decoded.organizationId)
              t == generateTokens(decoded.id, role, decoded.organizationId,
                                  token_version[decoded.id])
          IN /\ auth' = auth \ {c}
             /\ IF role = NoRole
                THEN /\ answer' = Answer(c, FALSE, "User not found", FALSE)
                     /\ UNCHANGED refresh_tokens
                ELSE IF VersionMismatch(token_version[decoded.id], decoded.tokenVersion)
                     THEN /\ answer' = Answer(c, FALSE, "Token has been revoked", TRUE)
                          /\ UNCHANGED refresh_tokens
                ELSE /\ CanSign(t)
                     /\ answer' = Answer(c, TRUE, "tokens", TRUE)
                     /\ refresh_tokens' = refresh_tokens \cup {t}
    /\ UNCHANGED <<token_version, revocations>>
    /\ UNCHANGED <<pipeVars, issued, password_reset_tokens, resetVars, libVars,
                   legacyVars, connVars, groupVars, honorVars, attendVars>>

\* SET token_version = COALESCE(token_version, 0) + 1
RevokedVersion_NoIncrement(v) == VersionOrZero(v)
RevokedVersion(v) == VersionOrZero(v) + 1

\* revokeUserTokens(userId): the UPDATE, or the error it catches to return
\* false.  Only the UPDATE that went through revokes.
revokeUserTokens ==
    /\ \E userId \in Users, updated \in BOOLEAN :
          IF updated
          THEN /\ revocations[userId] < MaxRevocations
               /\ token_version' =
                     [token_version EXCEPT ![userId] = RevokedVersion(@)]
               /\ revocations' = [revocations EXCEPT ![userId] = @ + 1]
          ELSE UNCHANGED <<token_version, revocations>>
    /\ UNCHANGED <<refresh_tokens, auth, answer>>
    /\ UNCHANGED <<pipeVars, issued, password_reset_tokens, resetVars, libVars,
                   legacyVars, connVars, groupVars, honorVars, attendVars>>

\* The service in front of a database where token_version was never set
\* (a column without a default) or is 0 for every user.
InitAuth ==
    /\ InitSessionIdle
    /\ mw = "config"
    /\ InitDb
    /\ issued = {}
    /\ req = Idle
    /\ served = 0
    /\ password_reset_tokens = [u \in Users |-> "none"]
    /\ InitResetIdle
    /\ user_participants = {}
    /\ token_version \in { [u \in Users |-> v] : v \in {NullVersion, 0} }
    /\ revocations = [u \in Users |-> 0]
    /\ refresh_tokens = {}
    /\ auth = {}
    /\ answer = [token |-> "none", success |-> FALSE, message |-> "none",
                 revokedAtStart |-> FALSE, revokedAtSelect |-> FALSE,
                 memberAtSelect |-> FALSE]
    /\ InitExtIdle
    /\ InitGroupIdle

NextAuth ==
    \/ authenticateUser
    \/ refreshTokenExpires
    \/ refreshAccessTokenVerify
    \/ refreshAccessTokenSelect
    \/ revokeUserTokens

SpecAuth == InitAuth /\ [][NextAuth]_vars

\* ------------------------------------------------------ the monolith index.js
\* src/index.js: app.use(tokenMiddleware), app.post("/api") with its switch
\* over req.body.action, and app.post("/login").  Nothing in the file sets
\* req.organizationId, and the cases "approve_user" and "update_user_role"
\* read an organizationId that no enclosing scope declares.

LegacyRespond(r, status, success, message) ==
    [r EXCEPT !.status = status,
              !.success = IF success THEN "true" ELSE "false",
              !.message = message]

\* tokenMiddleware of index.js for a path that is not in its publicRoutes:
\* the answer that ends the request, or "next".
legacyTokenMiddleware(cred) ==
    IF cred.kind = "none" THEN <<401, "Missing token">>
    ELSE IF JwtVerifyError(cred) # "none" THEN <<403, InvalidOrExpired008(cred)>>
    ELSE IF cred.claims.id = NoUser \/ cred.claims.organizationId = NoOrg
         THEN <<403, "Invalid or expired token: Invalid token payload">>
    ELSE <<0, "next">>

\* app.post("/api"): "/api" is not a public path of tokenMiddleware; the
\* handler then dispatches on the action.  In "login" the lookup uses
\* req.organizationId, which is undefined, and finds no row; the two admin
\* cases throw a ReferenceError when they build their query parameters, which
\* the handler's catch answers.
legacyApi ==
    /\ served < MaxRequests
    /\ \E action \in {"login", "approve_user", "update_user_role"}, cred \in Creds :
          LET r == [LegacyIdle EXCEPT !.path = "/api", !.action = action, !.cred = cred]
              gate == legacyTokenMiddleware(cred)
          IN legacy' =
                IF gate[2] # "next"
                THEN LegacyRespond(r, gate[1], FALSE, gate[2])
                ELSE IF action = "login"
                     THEN LegacyRespond([r EXCEPT !.hasUser = TRUE], 200, FALSE,
                                        "Invalid email or password.")
                ELSE LegacyRespond([r EXCEPT !.hasUser = TRUE], 200, FALSE,
                                   "An internal error occurred")
    /\ served' = served + 1
    /\ UNCHANGED <<mw, dbVars, req, issued, password_reset_tokens, resetVars, libVars,
                   authVars, connVars, groupVars, honorVars, attendVars>>

\* app.post("/login"), a public path: the membership row is read for
\* req.body.organization_id (getCurrentOrganizationId(req) throws when the
\* body has none), the token is signed with organizationId:
\* req.organizationId.
legacyLogin ==
    /\ served < MaxRequests
    /\ \E u \in Users, passwordOk \in BOOLEAN, organization_id \in Orgs \cup {NoOrg} :
          LET r == [LegacyIdle EXCEPT !.path = "/login", !.rowOrg = organization_id]
              role == MemberRole(u, organization_id)
              token == AccessToken(u, role, NoOrg)
          IN IF organization_id = NoOrg
             THEN /\ legacy' = LegacyRespond(r, 500, FALSE,
                        "An error occurred during login: Organization ID not found in the request")
                  /\ UNCHANGED issued
             ELSE IF role = NoRole \/ ~passwordOk
                  THEN /\ legacy' = LegacyRespond(r, 200, FALSE, "Invalid email or password.")
                       /\ UNCHANGED issued
             ELSE IF ~is_verified[u]
                  THEN /\ legacy' = LegacyRespond(r, 200, FALSE,
                                        "Your account is not yet verified.")
                       /\ UNCHANGED issued
             ELSE /\ CanIssue(token)
                  /\ legacy' = LegacyRespond([r EXCEPT !.signed = token], 200, TRUE,
                                             "login_successful")
                  /\ issued' = issued \cup {token}
    /\ served' = served + 1
    /\ UNCHANGED <<mw, dbVars, req, password_reset_tokens, resetVars, libVars,
                   authVars, connVars, groupVars, honorVars, attendVars>>

\* The monolith before its first request.  Clients may hold a token that
\* routes/public.js signed with the same JWT_SECRET_KEY.
InitLegacy ==
    /\ InitAuthIdle
    /\ InitExtIdle
    /\ InitGroupIdle
    /\ InitSessionIdle
    /\ mw = "config"
    /\ InitDb
    /\ issued \in { {}, {AccessToken("u1", "admin", 7)},
                    {AccessToken("u2", user_organizations["u2"][42], 42)} }
    /\ req = Idle
    /\ served = 0
    /\ password_reset_tokens = [u \in Users |-> "none"]
    /\ InitResetIdle

NextLegacy ==
    \/ legacyApi
    \/ legacyLogin

SpecLegacy == InitLegacy /\ [][NextLegacy]_vars

\* ------------------------------------------------- the pooled connections
\* The three places that check a client out of the pool themselves:
\* app.post("/authenticate") of index.js, transaction(callback) of
\* config/database.js and requireOrganizationContext of
\* config/middleware.js, one action per statement they await.  Every awaited
\* call on the pool or the client can reject; `holds` tells whether the
\* request has a client checked out.
MaxConnRequests == 2


\* What the request finds before it asks for a client: a body without apiKey
\* (/authenticate) or req.organizationId already set
\* (requireOrganizationContext) ends it there.
connArrive ==
    /\ Len(handling) < MaxConnRequests
    /\ \E op \in {"authenticate", "transaction", "requireOrganizationContext"}, early \in BOOLEAN :
          handling' = Append(handling,
             [op |-> op, holds |-> FALSE,
              pc |-> IF early /\ op # "transaction" THEN "done" ELSE "connect",
              outcome |-> IF early /\ op = "authenticate" THEN "401"
                          ELSE IF early /\ op = "requireOrganizationContext" THEN "next"
                          ELSE "none"])
    /\ UNCHANGED checked_out
    /\ UNCHANGED <<pipeVars, issued, password_reset_tokens, resetVars, libVars,
                   authVars, legacyVars, groupVars, honorVars, attendVars>>

\* client.release()
Released(h, outcome) == [h EXCEPT !.holds = FALSE, !.pc = "done", !.outcome = outcome]
\* The request ends without a call of client.release().
Ended(h, outcome) == [h EXCEPT !.pc = "done", !.outcome = outcome]

\* const client = await pool.connect()
poolConnect ==
    /\ \E k \in 1..Len(handling), threw \in BOOLEAN :
          LET h == handling[k]
          IN /\ h.pc = "connect"
             /\ IF threw
                THEN /\ handling' =
                           [handling EXCEPT ![k] =
                              Ended(h, IF h.op = "transaction" THEN "throw" ELSE "500")]
                     /\ UNCHANGED checked_out
                ELSE /\ handling' =
                           [handling EXCEPT ![k] =
                              [h EXCEPT !.holds = TRUE,
                                        !.pc = IF h.op = "transaction"
                                               THEN "BEGIN" ELSE "query"]]
                     /\ checked_out' = checked_out + 1
    /\ UNCHANGED <<pipeVars, issued, password_reset_tokens, resetVars, libVars,
                   authVars, legacyVars, groupVars, honorVars, attendVars>>

\* /authenticate: the SELECT, client.release() after it, then the answer; a
\* rejected SELECT goes to the catch, which answers 500.
authenticateQuery(h, threw) ==
    IF threw THEN Ended(h, "500") ELSE Released(h, "answered")

authenticate ==
    /\ \E k \in 1..Len(handling), threw \in BOOLEAN :
          /\ handling[k].op = "authenticate"
          /\ handling[k].pc = "query"
          /\ handling' = [handling EXCEPT ![k] = authenticateQuery(handling[k], threw)]
          /\ checked_out' = IF handling'[k].holds THEN checked_out ELSE checked_out - 1
    /\ UNCHANGED <<pipeVars, issued, password_reset_tokens, resetVars, libVars,
                   authVars, legacyVars, groupVars, honorVars, attendVars>>

\* requireOrganizationContext: the SELECT inside try/finally.
requireOrganizationContextQuery(h, threw) ==
    Released(h, IF threw THEN "500" ELSE "answered")

requireOrganizationContextLookup ==
    /\ \E k \in 1..Len(handling), threw \in BOOLEAN :
          /\ handling[k].op = "requireOrganizationContext"
          /\ handling[k].pc = "query"
          /\ handling' = [handling EXCEPT ![k] = requireOrganizationContextQuery(handling[k], threw)]
          /\ checked_out' = IF handling'[k].holds THEN checked_out ELSE checked_out - 1
    /\ UNCHANGED <<pipeVars, issued, password_reset_tokens, resetVars, libVars,
                   authVars, legacyVars, groupVars, honorVars, attendVars>>

\* transaction(callback): BEGIN, the callback, COMMIT; whichever rejects
\* goes to the catch, which awaits ROLLBACK and rethrows; finally releases,
\* also when ROLLBACK itself rejects.
transactionStep(h, threw) ==
    IF h.pc = "ROLLBACK" THEN Released(h, "throw")
    ELSE IF threw THEN [h EXCEPT !.pc = "ROLLBACK"]
    ELSE IF h.pc = "BEGIN" THEN [h EXCEPT !.pc = "callback"]
    ELSE IF h.pc = "callback" THEN [h EXCEPT !.pc = "COMMIT"]
    ELSE Released(h, "result")

transaction ==
    /\ \E k \in 1..Len(handling), threw \in BOOLEAN :
          /\ handling[k].op = "transaction"
          /\ handling[k].pc \in {"BEGIN", "callback", "COMMIT", "ROLLBACK"}
          /\ handling' = [handling EXCEPT ![k] = transactionStep(handling[k], threw)]
          /\ checked_out' = IF handling'[k].holds THEN checked_out ELSE checked_out - 1
    /\ UNCHANGED <<pipeVars, issued, password_reset_tokens, resetVars, libVars,
                   authVars, legacyVars, groupVars, honorVars, attendVars>>

InitConn ==
    /\ InitAuthIdle
    /\ InitExtIdle
    /\ InitGroupIdle
    /\ InitSessionIdle
    /\ mw = "config"
    /\ InitDb
    /\ issued = {}
    /\ req = Idle
    /\ served = 0
    /\ password_reset_tokens = [u \in Users |-> "none"]
    /\ InitResetIdle

NextConn ==
    \/ connArrive
    \/ poolConnect
    \/ authenticate
    \/ requireOrganizationContextLookup
    \/ transaction

SpecConn == InitConn /\ [][NextConn]_vars

\* --------------------------------------------------- updateParticipantGroup
\* exports.updateParticipantGroup (and case "update_participant_group" of
\* index.js), one action per statement it awaits, for participant p1 in one
\* organization.  The database runs READ COMMITTED: a statement sees the
\* rows committed when it starts; DELETE waits for the transaction that
\* holds a row it targets and skips the row if that transaction deleted it;
\* with a unique key, INSERT waits for an uncommitted row of the same key
\* and fails on a committed one.  A row is [rid, group_id]: rid 0 is the row
\* that was there at the start, rid k the row request k inserted.
MaxGroupCalls == 2

NoGroup == "none"
NoRow == [rid |-> -1, group_id |-> NoGroup]

\* Rows that request k has deleted and not yet committed or rolled back.
LockedByOther(k) ==
    UNION { grp[j].deleted : j \in { i \in 1..Len(grp) : i # k /\ grp[i].pc # "done" } }

\* Rows that other requests have inserted and not yet committed.
PendingInserts(k) ==
    { grp[j].inserted : j \in { i \in 1..Len(grp) :
                                   i # k /\ grp[i].pc # "done" /\ grp[i].inserted # NoRow } }

\* BEGIN and the two existence checks: `found` is false when the participant
\* or the group is not in the organization, and the handler throws.
updateParticipantGroupBegin ==
    /\ Len(grp) < MaxGroupCalls
    /\ \E group_id \in {"g1", "g2"} \cup {NoGroup}, found \in BOOLEAN :
          grp' = Append(grp,
             [pc |-> IF found THEN "DELETE" ELSE "ROLLBACK",
              parsedGroupId |-> group_id, targets |-> {}, deleted |-> {},
              inserted |-> NoRow, success |-> FALSE, message |-> "none",
              unchanged |-> FALSE])
    /\ UNCHANGED <<participant_groups_key, participant_groups>>
    /\ UNCHANGED <<pipeVars, issued, password_reset_tokens, resetVars, libVars,
                   authVars, legacyVars, connVars, honorVars, attendVars>>

\* DELETE FROM participant_groups WHERE participant_id = $1 AND
\* organization_id = $2 starts: its snapshot.
updateParticipantGroupDeleteScan ==
    /\ \E k \in 1..Len(grp) :
          /\ grp[k].pc = "DELETE"
          /\ grp' = [grp EXCEPT ![k].pc = "DELETE wait",
                                ![k].targets = participant_groups]
    /\ UNCHANGED <<participant_groups_key, participant_groups>>
    /\ UNCHANGED <<pipeVars, issued, password_reset_tokens, resetVars, libVars,
                   authVars, legacyVars, connVars, honorVars, attendVars>>

\* The DELETE returns once no row it targets is held by another
\* transaction; it has deleted the targets that still exist.
updateParticipantGroupDelete ==
    /\ \E k \in 1..Len(grp) :
          /\ grp[k].pc = "DELETE wait"
          /\ grp[k].targets \cap LockedByOther(k) = {}
          /\ grp' = [grp EXCEPT ![k].pc = IF grp[k].parsedGroupId # NoGroup
                                          THEN "INSERT" ELSE "COMMIT",
                                ![k].deleted = grp[k].targets \cap participant_groups]
    /\ UNCHANGED <<participant_groups_key, participant_groups>>
    /\ UNCHANGED <<pipeVars, issued, password_reset_tokens, resetVars, libVars,
                   authVars, legacyVars, connVars, honorVars, attendVars>>

\* INSERT INTO participant_groups: what the statement does given the rows of
\* the key that are committed and not deleted by this transaction.
InsertOutcome(keyed, present) ==
    IF keyed /\ present # {} THEN "unique_violation" ELSE "inserted"

updateParticipantGroupInsert ==
    /\ \E k \in 1..Len(grp), threw \in BOOLEAN :
          /\ grp[k].pc = "INSERT"
          /\ participant_groups_key => PendingInserts(k) = {}
          /\ IF threw \/ InsertOutcome(participant_groups_key,
                                       participant_groups \ grp[k].deleted)
                           = "unique_violation"
             THEN grp' = [grp EXCEPT ![k].pc = "ROLLBACK"]
             ELSE grp' = [grp EXCEPT ![k].pc = "COMMIT",
                                     ![k].inserted =
                                         [rid |-> k, group_id |-> grp[k].parsedGroupId]]
    /\ UNCHANGED <<participant_groups_key, participant_groups>>
    /\ UNCHANGED <<pipeVars, issued, password_reset_tokens, resetVars, libVars,
                   authVars, legacyVars, connVars, honorVars, attendVars>>

\* COMMIT publishes the transaction's deletes and insert; when it rejects,
\* the catch rolls back.
updateParticipantGroupCommit ==
    /\ \E k \in 1..Len(grp), threw \in BOOLEAN :
          /\ grp[k].pc = "COMMIT"
          /\ IF threw
             THEN /\ grp' = [grp EXCEPT ![k].pc = "ROLLBACK"]
                  /\ UNCHANGED participant_groups
             ELSE /\ participant_groups' =
                        (participant_groups \ grp[k].deleted)
                           \cup ({grp[k].inserted} \ {NoRow})
                  /\ grp' = [grp EXCEPT ![k].pc = "done", ![k].success = TRUE,
                                        ![k].message = "Group updated successfully",
                                        ![k].deleted = {}, ![k].inserted = NoRow]
    /\ UNCHANGED participant_groups_key
    /\ UNCHANGED <<pipeVars, issued, password_reset_tokens, resetVars, libVars,
                   authVars, legacyVars, connVars, honorVars, attendVars>>

\* catch: ROLLBACK, then the error message as the answer.
updateParticipantGroupRollback ==
    /\ \E k \in 1..Len(grp) :
          /\ grp[k].pc = "ROLLBACK"
          /\ grp' = [grp EXCEPT ![k].pc = "done", ![k].message = "error.message",
                                ![k].deleted = {}, ![k].inserted = NoRow,
                                ![k].unchanged =
                                    /\ grp[k].deleted \subseteq participant_groups
                                    /\ grp[k].inserted \notin participant_groups]
    /\ UNCHANGED <<participant_groups_key, participant_groups>>
    /\ UNCHANGED <<pipeVars, issued, password_reset_tokens, resetVars, libVars,
                   authVars, legacyVars, connVars, honorVars, attendVars>>

\* p1 has no group or one; the schema behind the handler, which the
\* repository does not hold, declares the unique key or not.
InitGroup ==
    /\ InitAuthIdle
    /\ InitExtIdle
    /\ participant_groups_key \in BOOLEAN
    /\ participant_groups \in {{}, {[rid |-> 0, group_id |-> "g1"]}}
    /\ grp = <<>>
    /\ InitSessionIdle
    /\ mw = "config"
    /\ InitDb
    /\ issued = {}
    /\ req = Idle
    /\ served = 0
    /\ password_reset_tokens = [u \in Users |-> "none"]
    /\ InitResetIdle

NextGroup ==
    \/ updateParticipantGroupBegin
    \/ updateParticipantGroupDeleteScan
    \/ updateParticipantGroupDelete
    \/ updateParticipantGroupInsert
    \/ updateParticipantGroupCommit
    \/ updateParticipantGroupRollback

SpecGroup == InitGroup /\ [][NextGroup]_vars

\* --------------------------------------------------------------- awardHonor
\* exports.awardHonor (and the cases "award_honor" of index.js), one action
\* per statement it awaits, in one organization.  honors has the unique
\* index (participant_id, date, organization_id) that the INSERT names as
\* its conflict target.  Under READ COMMITTED, INSERT ... ON CONFLICT DO
\* NOTHING returns no row when a committed row or a row of its own
\* transaction has the key, and waits for another transaction's uncommitted
\* row of the key; the database ends a wait that cannot end (a deadlock) with
\* an error.
MaxHonorCalls == 2

Zero == [key \in HonorKeys |-> 0]

\* BEGIN
awardHonorBegin ==
    /\ Len(hon) < MaxHonorCalls
    \* req.body: one honor, or two that may be the same.
    /\ \E body \in { <<a>> : a \in HonorKeys }
                    \cup { <<a, b>> : a \in HonorKeys, b \in HonorKeys } :
          hon' = Append(hon,
             [pc |-> "INSERT honors", body |-> body, i |-> 1,
              honors |-> Zero, points |-> Zero, success |-> FALSE])
    /\ UNCHANGED <<honors, points>>
    /\ UNCHANGED <<pipeVars, issued, password_reset_tokens, resetVars, libVars,
                   authVars, legacyVars, connVars, groupVars, attendVars>>

\* Rows of honors with the key that other open transactions have inserted.
UncommittedHonors(k, key) ==
    { j \in 1..Len(hon) : j # k /\ hon[j].pc # "done" /\ hon[j].honors[key] > 0 }

\* result.rows.length > 0
Awarded_Always(rows) == TRUE
Awarded(rows) == rows > 0

\* INSERT INTO honors ... ON CONFLICT (...) DO NOTHING RETURNING id
awardHonorInsertHonor ==
    /\ \E k \in 1..Len(hon), threw \in BOOLEAN :
          LET h == hon[k]
              key == h.body[h.i]
              rows == IF honors[key] > 0 \/ h.honors[key] > 0 THEN 0 ELSE 1
          IN /\ h.pc = "INSERT honors"
             /\ IF threw
                THEN hon' = [hon EXCEPT ![k].pc = "ROLLBACK"]
                ELSE /\ UncommittedHonors(k, key) = {}
                     /\ hon' = [hon EXCEPT
                           ![k].honors[key] = @ + rows,
                           ![k].pc = IF Awarded(rows) THEN "INSERT points"
                                     ELSE IF h.i < Len(h.body) THEN "INSERT honors"
                                     ELSE "COMMIT",
                           ![k].i = IF Awarded(rows) \/ h.i = Len(h.body)
                                    THEN h.i ELSE h.i + 1]
    /\ UNCHANGED <<honors, points>>
    /\ UNCHANGED <<pipeVars, issued, password_reset_tokens, resetVars, libVars,
                   authVars, legacyVars, connVars, groupVars, attendVars>>

\* INSERT INTO points (participant_id, value, created_at, organization_id)
\* VALUES ($1, 5, $2, $3)
awardHonorInsertPoints ==
    /\ \E k \in 1..Len(hon), threw \in BOOLEAN :
          LET h == hon[k]
              key == h.body[h.i]
          IN /\ h.pc = "INSERT points"
             /\ IF threw
                THEN hon' = [hon EXCEPT ![k].pc = "ROLLBACK"]
                ELSE hon' = [hon EXCEPT
                        ![k].points[key] = @ + 1,
                        ![k].pc = IF h.i < Len(h.body) THEN "INSERT honors" ELSE "COMMIT",
                        ![k].i = IF h.i < Len(h.body) THEN h.i + 1 ELSE h.i]
    /\ UNCHANGED <<honors, points>>
    /\ UNCHANGED <<pipeVars, issued, password_reset_tokens, resetVars, libVars,
                   authVars, legacyVars, connVars, groupVars, attendVars>>

\* COMMIT publishes the rows of the transaction; when it rejects, the catch
\* rolls back.
awardHonorCommit ==
    /\ \E k \in 1..Len(hon), threw \in BOOLEAN :
          /\ hon[k].pc = "COMMIT"
          /\ IF threw
             THEN /\ hon' = [hon EXCEPT ![k].pc = "ROLLBACK"]
                  /\ UNCHANGED <<honors, points>>
             ELSE /\ honors' = [key \in HonorKeys |-> honors[key] + hon[k].honors[key]]
                  /\ points' = [key \in HonorKeys |-> points[key] + hon[k].points[key]]
                  /\ hon' = [hon EXCEPT ![k].pc = "done", ![k].success = TRUE,
                                        ![k].honors = Zero, ![k].points = Zero]
    /\ UNCHANGED <<pipeVars, issued, password_reset_tokens, resetVars, libVars,
                   authVars, legacyVars, connVars, groupVars, attendVars>>

\* catch: ROLLBACK discards the rows of the transaction.
awardHonorRollback ==
    /\ \E k \in 1..Len(hon) :
          /\ hon[k].pc = "ROLLBACK"
          /\ hon' = [hon EXCEPT ![k].pc = "done",
                                ![k].honors = Zero, ![k].points = Zero]
    /\ UNCHANGED <<honors, points>>
    /\ UNCHANGED <<pipeVars, issued, password_reset_tokens, resetVars, libVars,
                   authVars, legacyVars, connVars, groupVars, attendVars>>

InitHonor ==
    /\ InitAuthIdle
    /\ InitExtIdle
    /\ InitGroupIdle
    /\ InitSessionIdle
    /\ mw = "config"
    /\ InitDb
    /\ issued = {}
    /\ req = Idle
    /\ served = 0
    /\ password_reset_tokens = [u \in Users |-> "none"]
    /\ InitResetIdle

NextHonor ==
    \/ awardHonorBegin
    \/ awardHonorInsertHonor
    \/ awardHonorInsertPoints
    \/ awardHonorCommit
    \/ awardHonorRollback

SpecHonor == InitHonor /\ [][NextHonor]_vars

\* --------------------------------------------------------- update_attendance
\* The three handlers that record an attendance status, for participant p1
\* on one date in one organization, one action per statement they await:
\*   "get"  case "update_attendance" of app.get("/api") in index.js, which
\*          also records a point adjustment;
\*   "post" case "update_attendance" of app.post("/api") in index.js;
\*   "ctl"  exports.updateAttendance, behind POST /api/update-attendance.
\* The database runs READ COMMITTED; INSERT ... ON CONFLICT DO UPDATE takes
\* the row's lock and waits for the transaction that holds it.
MaxAttendanceCalls == 2


\* calculatePointAdjustment(oldStatus, newStatus)
calculatePointAdjustment(oldStatus, newStatus) ==
    IF oldStatus = newStatus THEN 0
    ELSE IF oldStatus = "non-motivated" /\ newStatus # "non-motivated" THEN 1
    ELSE IF oldStatus # "non-motivated" /\ newStatus = "non-motivated" THEN -1
    ELSE 0

\* The organization of the request and BEGIN.  Without an organization the
\* handler throws before it begins; the two other handlers then check that
\* the participant is in the organization (`found`).
updateAttendanceBegin ==
    /\ Len(att) < MaxAttendanceCalls
    /\ \E handler \in {"get", "post", "ctl"}, status \in {"present", "absent", "non-motivated"},
          organizationId \in {NoOrg, 42}, found \in BOOLEAN :
          att' = Append(att,
             [handler |-> handler, status |-> status, previousStatus |-> "none",
              pc |-> IF organizationId = NoOrg THEN "done"
                     ELSE IF handler = "get" THEN "SELECT"
                     ELSE IF found THEN "INSERT attendance" ELSE "ROLLBACK",
              written |-> FALSE, success |-> FALSE])
    /\ UNCHANGED <<attendance, point_adjustments>>
    /\ UNCHANGED <<pipeVars, issued, password_reset_tokens, resetVars, libVars,
                   authVars, legacyVars, connVars, groupVars, honorVars>>

\* SELECT status FROM attendance ...: previousStatusResult.rows[0]?.status || "none"
updateAttendanceSelect ==
    /\ \E k \in 1..Len(att) :
          /\ att[k].pc = "SELECT"
          /\ att' = [att EXCEPT ![k].previousStatus = attendance,
                                ![k].pc = "INSERT attendance"]
    /\ UNCHANGED <<attendance, point_adjustments>>
    /\ UNCHANGED <<pipeVars, issued, password_reset_tokens, resetVars, libVars,
                   authVars, legacyVars, connVars, groupVars, honorVars>>

\* INSERT INTO attendance ... ON CONFLICT (...) DO UPDATE SET status =
\* EXCLUDED.status
updateAttendanceUpsert ==
    /\ \E k \in 1..Len(att), threw \in BOOLEAN :
          LET a == att[k]
          IN /\ a.pc = "INSERT attendance"
             /\ IF threw
                THEN att' = [att EXCEPT ![k].pc = "ROLLBACK"]
                ELSE /\ \A j \in 1..Len(att) :
                           j # k => ~(att[j].written /\ att[j].pc # "done")
                     /\ att' = [att EXCEPT
                           ![k].written = TRUE,
                           ![k].pc = IF /\ a.handler = "get"
                                        /\ calculatePointAdjustment(a.previousStatus,
                                                                    a.status) # 0
                                     THEN "INSERT points" ELSE "COMMIT"]
    /\ UNCHANGED <<attendance, point_adjustments>>
    /\ UNCHANGED <<pipeVars, issued, password_reset_tokens, resetVars, libVars,
                   authVars, legacyVars, connVars, groupVars, honorVars>>

\* INSERT INTO points (participant_id, value, created_at, organization_id)
\* VALUES ($1, NULL, $2, $3, $4) with three parameters: five values for four
\* columns and a $4 that is not bound; the database rejects the statement.
updateAttendanceInsertPoints ==
    /\ \E k \in 1..Len(att) :
          /\ att[k].pc = "INSERT points"
          /\ att' = [att EXCEPT ![k].pc = "ROLLBACK"]
    /\ UNCHANGED <<attendance, point_adjustments>>
    /\ UNCHANGED <<pipeVars, issued, password_reset_tokens, resetVars, libVars,
                   authVars, legacyVars, connVars, groupVars, honorVars>>

\* COMMIT publishes the status; when it rejects, the catch rolls back.
updateAttendanceCommit ==
    /\ \E k \in 1..Len(att), threw \in BOOLEAN :
          /\ att[k].pc = "COMMIT"
          /\ IF threw
             THEN /\ att' = [att EXCEPT ![k].pc = "ROLLBACK"]
                  /\ UNCHANGED attendance
             ELSE /\ attendance' = att[k].status
                  /\ att' = [att EXCEPT ![k].pc = "done", ![k].success = TRUE,
                                        ![k].written = FALSE]
    /\ UNCHANGED point_adjustments
    /\ UNCHANGED <<pipeVars, issued, password_reset_tokens, resetVars, libVars,
                   authVars, legacyVars, connVars, groupVars, honorVars>>

\* catch: ROLLBACK and the error answer.
updateAttendanceRollback ==
    /\ \E k \in 1..Len(att) :
          /\ att[k].pc = "ROLLBACK"
          /\ att' = [att EXCEPT ![k].pc = "done", ![k].written = FALSE]
    /\ UNCHANGED <<attendance, point_adjustments>>
    /\ UNCHANGED <<pipeVars, issued, password_reset_tokens, resetVars, libVars,
                   authVars, legacyVars, connVars, groupVars, honorVars>>

InitAttendance ==
    /\ InitAuthIdle
    /\ InitExtIdle
    /\ InitGroupIdle
    /\ InitSessionIdle
    /\ mw = "config"
    /\ InitDb
    /\ issued = {}
    /\ req = Idle
    /\ served = 0
    /\ password_reset_tokens = [u \in Users |-> "none"]
    /\ InitResetIdle

NextAttendance ==
    \/ updateAttendanceBegin
    \/ updateAttendanceSelect
    \/ updateAttendanceUpsert
    \/ updateAttendanceInsertPoints
    \/ updateAttendanceCommit
    \/ updateAttendanceRollback

SpecAttendance == InitAttendance /\ [][NextAttendance]_vars

\* ------------------------------------------------------------------ claims
Range(seq) == { seq[i] : i \in 1..Len(seq) }
Route == RouteTable[req.route]
HandlerRan == "handler" \in Range(req.steps)

\* The route is on the allow-list the running tokenMiddleware consults.
OnAllowList ==
    CASE mw = "config" -> isPublicRoute(Route.path)
      [] mw = "part_007" -> isPublicRoute007(Route.path)
      [] mw = "part_008" -> Route.path \in publicRoutes008
\* A route of routes/api.js that no version of the allow-list names.
Protected ==
    /\ Route.router = "api"
    /\ ~OnAllowList
    /\ ~isPublicRoute(Route.path)

\* C1: of the resetPassword requests that started while the reset token of a
\* user was valid and unused and that have all been answered, two or more
\* of them, exactly one succeeded; the others failed.
ResetsOf(u) ==
    { i \in DOMAIN tx : tx[i].userId = u /\ tx[i].unusedAtStart }
C1_ExactlyOneResetSucceeds ==
    \A u \in Users :
       ( /\ Cardinality(ResetsOf(u)) >= 2
         /\ \A i \in ResetsOf(u) : tx[i].pc = "done" )
       => Cardinality({ i \in ResetsOf(u) : tx[i].success = "true" }) = 1

C4_SpoofedParameterNotTrusted ==
    ( /\ req.pc = "done"
      /\ HandlerRan
      /\ req.verified /\ req.hasUser
      /\ req.user.organizationId # NoOrg
      /\ req.paramOrg # NoOrg
      /\ req.paramOrg # req.user.organizationId )
    => /\ req.effectiveOrg = req.user.organizationId
       /\ req.status = 403

\* C5: for a request that has not passed credential verification with a
\* matching organizationId claim, the explicit tenant parameter is not the
\* organization the request is served for.
C5_ParameterIgnoredWithoutCredential ==
    ( /\ req.pc = "done"
      /\ HandlerRan
      /\ req.paramOrg # NoOrg
      /\ ~(req.verified /\ req.cred.claims.organizationId = req.paramOrg) )
    => req.effectiveOrg # req.paramOrg

\* C6: the handler of a protected /api route runs only with a resolved,
\* non-null organization context.
C6_ProtectedHandlerHasTenant ==
    (HandlerRan /\ Protected) => getOrganizationId(req) # NoOrg

\* C7: a request rejected for its credential, its tenant or its access is
\* answered with a typed status (400, 401 or 403) and no handler has run.
CredentialRejections ==
    {"Authentication required", "Missing token", "Invalid or expired token",
     "Invalid or expired token: Invalid token payload",
     "Invalid or expired token: jwt expired",
     "Invalid or expired token: invalid signature",
     "User authentication required for this resource"}
TenantRejections ==
    {"Invalid organization context", "Organization ID not found",
     "Error retrieving participant"}
AccessRejections ==
    {"No role information found", "Insufficient permissions",
     "You do not have permission to access this participant's data"}
Rejected ==
    /\ req.pc = "done"
    /\ req.success = "false"
    /\ req.message \in CredentialRejections \cup TenantRejections \cup AccessRejections

C7_RejectedBeforeHandler ==
    Rejected => (~HandlerRan /\ req.status \in {400, 401, 403})

\* C8 (as stated): the steps of one request run in the order credential
\* verification (the JWT step), tenant resolution (the organization
\* middleware), access control (tokenMiddleware, roleMiddleware), binding
\* (the handler); and tenant resolution runs for a request that presents a
\* credential only once that credential's claims have been verified.
StepPhase(step) ==
    CASE step = "extractOrganizationFromJWT" -> 1
      [] step = "organizationMiddleware" -> 2
      [] step = "tokenMiddleware" -> 3
      [] step = "roleMiddleware" -> 3
      [] step = "handler" -> 4
PhasesInOrder ==
    \A i \in 1..Len(req.steps), j \in 1..Len(req.steps) :
       i < j => StepPhase(req.steps[i]) <= StepPhase(req.steps[j])
Chain(route) ==
    <<"extractOrganizationFromJWT", "organizationMiddleware">>
      \o ( IF RouteTable[route].router = "public" THEN <<>>
           ELSE <<"tokenMiddleware">>
                  \o (IF RouteTable[route].roles # {}
                      THEN <<"roleMiddleware">> ELSE <<>>) )
      \o <<"handler">>
IsPrefix(a, b) == Len(a) <= Len(b) /\ a = SubSeq(b, 1, Len(a))

C9_HostResolvedAndCredentialMissing ==
    ( /\ req.pc = "done"
      /\ req.cred.kind = "none"
      /\ req.host = HostMeute
      /\ Protected /\ Route.roles # {} )
    => /\ req.organizationId = 42
       /\ req.status = 401
       /\ req.message \in {"Authentication required", "Missing token"}
       /\ "roleMiddleware" \notin Range(req.steps)

\* C10: a request to a protected route bearing a valid token with
\* organizationId = 7 and role admin, from an unrelated Host, is resolved to
\* tenant 7 without any query of organization_domains.
C10_ClaimSkipsDomainLookup ==
    ( /\ req.pc = "done"
      /\ req.cred.kind = "valid"
      /\ req.cred.claims.id # NoUser
      /\ req.cred.claims.role = "admin"
      /\ req.cred.claims.organizationId = 7
      /\ req.host = HostOther
      /\ Protected )
    => /\ getOrganizationId(req) = 7
       /\ req.domainQueries = 0

\* C11: every public-route classifier of the code gives the same answer for
\* the path of the request: isPublicRoute of both versions of
\* config/middleware.js, the allow-list inside the third version's
\* tokenMiddleware, and requiresAuth of utils/routeConfig.js.
C11_ClassifiersAgree ==
    "tokenMiddleware" \in Range(req.steps) =>
       LET path == Route.path
       IN /\ isPublicRoute(path) = isPublicRoute007(path)
          /\ isPublicRoute(path) = (path \in publicRoutes008)
          /\ isPublicRoute(path) = ~requiresAuth(path)

ExactBindings(host) ==
    { d \in organization_domains : d.domain = host }
WildcardBindings(host) ==
    { d \in organization_domains : d.domain # host /\ Like(host, d.domain) }
C13_ExactBindingWins ==
    ( /\ req.route = "publicGetOrganizationId"
      /\ req.pc = "done"
      /\ req.success = "true"
      /\ ExactBindings(req.lookupHost) # {}
      /\ WildcardBindings(req.lookupHost) # {} )
    => req.effectiveOrg \in
          { d.organization_id : d \in ExactBindings(req.lookupHost) }

\* C14: the answer tokenMiddleware gives a request whose token has expired
\* tells it apart from a request whose token fails the signature check: the
\* same request with a forged token is not answered with the same message.
C14_ExpiredToldFromInvalid ==
    ( /\ req.pc = "done"
      /\ req.cred.kind = "expired"
      /\ req.steps # <<>>
      /\ req.steps[Len(req.steps)] = "tokenMiddleware" )
    => req.message # tokenMiddlewareOf([req EXCEPT !.cred = ForgedCred]).message

\* C15: a request to a protected route whose token fails the signature
\* check is answered with status 401.
C15_InvalidTokenIs401 ==
    ( /\ req.pc = "done"
      /\ Protected
      /\ req.cred.kind = "forged" )
    => req.status = 401

\* C18: getFormSubmission grants access to the data of a participant the
\* user is directly linked to (a user_participants row), also when the
\* user's role gives no access (the access query itself answering; when it
\* fails the function returns false).
C18_DirectLinkGrantsAccess ==
    ( /\ req.route = "getFormSubmission"
      /\ req.pc = "done"
      /\ HandlerRan
      /\ <<req.user.id, req.participant>> \in user_participants )
    => /\ req.granted
       /\ req.message # "You do not have permission to access this participant's data"
C18_Witness ==
    /\ req.route = "getFormSubmission"
    /\ req.pc = "done"
    /\ HandlerRan
    /\ <<req.user.id, req.participant>> \in user_participants
    /\ \A o \in Orgs : MemberRole(req.user.id, o) \notin {"admin", "animation"}
    /\ req.user.role = "parent"
    /\ req.granted

\* C19: a resetPassword request that presents a user's reset token after a
\* resetPassword has succeeded with it (the token is marked used when the
\* request starts) fails at the SELECT: it never reaches the UPDATE of the
\* password, and is answered "Invalid or expired reset token".  (Requests
\* that overlap the successful one are the case of C1.)
LaterResets ==
    { i \in DOMAIN tx : tx[i].userId \in Users /\ ~tx[i].unusedAtStart }
C19_ConsumedTokenRejected ==
    \A i \in LaterResets :
       /\ tx[i].pc \in {"select", "done"}
       /\ tx[i].pc = "done" =>
             /\ tx[i].success = "false"
             /\ tx[i].message = "Invalid or expired reset token"
       /\ \E j \in DOMAIN tx :
             /\ j < i
             /\ tx[j].userId = tx[i].userId
             /\ tx[j].success = "true"
             /\ password[tx[i].userId] \in
                   { tx[k].new_password :
                       k \in { m \in DOMAIN tx : tx[m].unusedAtStart
                                                  /\ tx[m].userId = tx[i].userId } }
C19_Witness ==
    \E i \in LaterResets :
       /\ tx[i].pc = "done"
       /\ tx[i].success = "false"
       /\ password_reset_tokens[tx[i].userId] = "used"

\* C16: when the hostname lookup of requireOrganizationContext fails with
\* an unexpected error, the request is answered as one whose tenant is
\* unresolved (400), not with a server error.
C16_LookupErrorIsTenantUnresolved ==
    ( /\ call.op = "requireOrganizationContext"
      /\ call.error )
    => call.status = 400

\* C17: getCurrentOrganizationId returns null, and does not throw, when the
\* session holds no organization and no row of organization_domains matches
\* the request's host (a missing host included).
C17_UnresolvedIsNullNotThrown ==
    ( /\ call.op = "getCurrentOrganizationId"
      /\ call.before = NoOrg
      /\ ~call.error
      /\ MatchingDomains(call.host) = {} )
    => /\ ~call.threw
       /\ call.result = NoOrg

\* C20: the organization getCurrentOrganizationId resolves for a request
\* comes from that request alone: it is the organization of a row of
\* organization_domains that matches the request's host.
C20_ResolutionConfinedToRequest ==
    ( /\ call.op = "getCurrentOrganizationId"
      /\ ~call.threw )
    => call.result \in { d.organization_id : d \in MatchingDomains(call.host) }

\* C22: the approve-user, update-user-role and
\* remove-participant-from-organization handlers run only for a request whose
\* authenticated role, the role claim of the verified token that
\* tokenMiddleware copied into req.user, is admin.
AdminOnlyRoutes == {"approveUser", "updateUserRole", "removeParticipantFromOrganization"}
C24_AcceptedTokenHasIdAndOrganization ==
    ( /\ Protected
      /\ "tokenMiddleware" \in Range(req.steps)
      /\ req.hasUser )
    => ( /\ req.cred.claims.id # NoUser
         /\ req.cred.claims.organizationId # NoOrg )

\* C26: the answer of request_reset to an email that matches no user cannot
\* be told from its answer to a registered email.  The answer to an unknown
\* email is fixed (200, success, the "If an account exists" message), so the
\* two are indistinguishable exactly when every answer of the handler is
\* that one.
UnknownEmailAnswer ==
    [status |-> 200, success |-> "true",
     message |-> "If an account exists with this email, a reset link will be sent."]
C26_ResetAnswerHidesRegistration ==
    ( /\ req.route = "publicRequestReset"
      /\ HandlerRan
      /\ req.pc = "done" )
    => [status |-> req.status, success |-> req.success, message |-> req.message]
          = UnknownEmailAnswer

\* C23: a refreshAccessToken call that arrives after revokeUserTokens has
\* gone through for the token's user, the token having been signed before
\* that revocation, is rejected, whatever other calls it interleaves with.
C23_RevokedRefreshTokenRejected ==
    answer.revokedAtStart => ~answer.success
\* A token signed before a revocation was presented after it, unexpired, and
\* answered "Token has been revoked".
C23_Witness ==
    /\ answer.revokedAtStart
    /\ answer.message = "Token has been revoked"

\* C30: refreshAccessToken accepts a refresh token signed by authenticateUser
\* when the token has not expired, the user is still a member of the token's
\* organization and revokeUserTokens has not gone through for the user since
\* the token was signed, also for a user whose token_version was never set.
C30_LiveRefreshTokenAccepted ==
    ( /\ answer.message \notin {"none", "Invalid refresh token"}
      /\ answer.memberAtSelect
      /\ ~answer.revokedAtSelect )
    => answer.success


\* C25: the role claim and the organizationId claim of a token signed at
\* login are those of one membership row: the row of the token's user in the
\* token's organization, which is the row the login read.
C25_LoginTokenFromOneMembership ==
    ( legacy.path = "/login" /\ legacy.signed # NoClaims )
    => ( /\ legacy.signed.organizationId = legacy.rowOrg
         /\ legacy.signed.role =
               MemberRole(legacy.signed.id, legacy.signed.organizationId) )

\* C21: a request that is over, answered or thrown, holds no client of the
\* pool, on its success path and on every error path; the clients checked
\* out are exactly those of the requests still being handled.
C21_ConnectionReleasedWhenDone ==
    /\ \A k \in 1..Len(handling) : handling[k].pc = "done" => ~handling[k].holds
    /\ checked_out = Cardinality({ k \in 1..Len(handling) :
                                     handling[k].pc # "done" /\ handling[k].holds })

\* C27: after any sequence of updateParticipantGroup calls, concurrent calls
\* for the same participant included, the participant has at most one group
\* assignment in the organization, and a call that failed left the
\* assignment it found unchanged.
C27_AtMostOneGroupAssignment ==
    /\ Cardinality(participant_groups) <= 1
    /\ \A k \in 1..Len(grp) :
          ( grp[k].pc = "done" /\ ~grp[k].success ) => grp[k].unchanged

\* C28: for every participant, date and organization the committed rows hold
\* at most one honor and at most one 5-point award, however often the award
\* is repeated in one request, in later requests or in concurrent ones, and
\* as many 5-point awards as honors.
C28_OneHonorOneAward ==
    \A key \in HonorKeys :
       /\ honors[key] <= 1
       /\ points[key] <= 1
       /\ points[key] = honors[key]
\* The same honor was in two requests that both committed, and it is
\* recorded once with its award.
C28_Witness ==
    \E key \in HonorKeys :
       /\ honors[key] = 1
       /\ points[key] = 1
       /\ Cardinality({ k \in 1..Len(hon) :
             /\ hon[k].pc = "done" /\ hon[k].success
             /\ \E i \in 1..Len(hon[k].body) : hon[k].body[i] = key }) >= 2

\* C29: for the participant and the date, the point adjustments that
\* update_attendance has recorded add up to -1 when the current attendance
\* status is non-motivated and to 0 otherwise, after any sequence of status
\* updates, concurrent ones included.
C29_AdjustmentsFollowStatus ==
    point_adjustments = IF attendance = "non-motivated" THEN -1 ELSE 0
====
